---- MODULE Spec2Model ----
(***************************************************************************)
(* Packrat: the interactive state machine of the stash explorer            *)
(* (src/main.go, the Explore/Build variant starting at line 691).          *)
(*                                                                         *)
(* The model is the bubbletea model struct, the Update function taken one  *)
(* message at a time, and the commands Update returns, kept in a bag of    *)
(* operations in flight until their completion message is delivered.      *)
(* A command runs against the repository and delivers its message in one   *)
(* step; completions are delivered in any order.                           *)
(***************************************************************************)
EXTENDS Integers, Sequences, FiniteSets, Bags, TLC

\* Bounds of the model.
MaxStashes == 1      \* stashes the repository holds at most
MaxInFlight == 1     \* operations in flight at most
MaxInput == 1        \* characters typed into the stash-message input at most
MaxFaults == 0       \* git commands failing for a reason outside the program at most

\* ---------------------------------------------------------------------------
\* States (src/main.go 778-813)
\* ---------------------------------------------------------------------------
ModeExplore == "Explore"
ModeBuild == "Build"
Mode == {ModeExplore, ModeBuild}

ModalNone == "None"
ModalDeleteConfirm == "DeleteConfirm"
ModalApplyConfirm == "ApplyConfirm"
ModalStashMessage == "StashMessage"
ModalRestoreConfirm == "RestoreConfirm"
ModalType == {ModalNone, ModalDeleteConfirm, ModalApplyConfirm,
              ModalStashMessage, ModalRestoreConfirm}

\* ---------------------------------------------------------------------------
\* Domain records (src/main.go 708-737)
\* ---------------------------------------------------------------------------
\* A stash is identified by its reference stash@{i}; the model keeps i.
NoRef == -1

FileChange(path, status, staged) ==
    [Path |-> path, Status |-> status, IsStaged |-> staged]

\* The empty Go map.
EmptyMap == <<>>

\* delete(m, key) on a Go map.
MapDelete(m, key) == [k \in (DOMAIN m) \ {key} |-> m[k]]

\* m[key] = value on a Go map.
MapPut(m, key, value) ==
    [k \in (DOMAIN m) \cup {key} |-> IF k = key THEN value ELSE m[k]]

\* ---------------------------------------------------------------------------
\* The repository as the git commands see it
\* ---------------------------------------------------------------------------
\* One line of `git status --porcelain`, XY path, as the pieces of its text:
\* the column X, the column Y, a blank and the path.
StatusLine(x, y, path) == << x, y, " ", path >>

\* The outputs of `git status --porcelain` the working tree can produce.
StatusOutputs ==
    { <<>>,
      << StatusLine(" ", "M", "a.go") >> }

\* len(line): the characters of all the pieces.
RECURSIVE LineLen(_)
LineLen(line) == IF line = <<>> THEN 0 ELSE Len(Head(line)) + LineLen(Tail(line))

\* strings.TrimSpace, on a text whose white space is pieces of one blank.
RECURSIVE TrimSpace(_)
TrimSpace(text) ==
    CASE text = <<>> -> <<>>
      [] text # <<>> /\ Head(text) = " " -> TrimSpace(Tail(text))
      [] text # <<>> /\ Head(text) # " " /\ text[Len(text)] = " " ->
           TrimSpace(SubSeq(text, 1, Len(text) - 1))
      [] OTHER -> text

\* The string a text is.
RECURSIVE Join(_)
Join(text) == IF text = <<>> THEN "" ELSE Head(text) \o Join(Tail(text))

RECURSIVE listChangedFilesStagingUntracked(_)
\* A mutation of listChangedFiles: "?" in the column X counts as staged.
listChangedFilesStagingUntracked(lines) ==
    IF lines = <<>> THEN <<>>
    ELSE LET line == Head(lines)
         IN  IF LineLen(line) < 4
             THEN listChangedFilesStagingUntracked(Tail(lines))
             ELSE LET stagedStatus == line[1]
                      unstagedStatus == line[2]
                      path == Join(TrimSpace(SubSeq(line, 4, Len(line))))
                      staged == IF stagedStatus # " "
                                THEN << FileChange(path, stagedStatus, TRUE) >>
                                ELSE <<>>
                      unstaged == IF unstagedStatus # " "
                                  THEN << FileChange(path, unstagedStatus, FALSE) >>
                                  ELSE <<>>
                  IN  staged \o unstaged
                        \o listChangedFilesStagingUntracked(Tail(lines))

RECURSIVE listChangedFiles(_)
\* src/main.go 917-958: a line of fewer than four characters is skipped; a
\* staged record when X is neither blank nor "?", an unstaged record when Y
\* is not blank, both with the trimmed text from the fourth character on.
listChangedFiles(lines) ==
    IF lines = <<>> THEN <<>>
    ELSE LET line == Head(lines)
         IN  IF LineLen(line) < 4
             THEN listChangedFiles(Tail(lines))
             ELSE LET stagedStatus == line[1]
                      unstagedStatus == line[2]
                      path == Join(TrimSpace(SubSeq(line, 4, Len(line))))
                      staged == IF stagedStatus # " " /\ stagedStatus # "?"
                                THEN << FileChange(path, stagedStatus, TRUE) >>
                                ELSE <<>>
                      unstaged == IF unstagedStatus # " "
                                  THEN << FileChange(path, unstagedStatus, FALSE) >>
                                  ELSE <<>>
                  IN  staged \o unstaged \o listChangedFiles(Tail(lines))

\* src/main.go 899-915: the references stash@{0} .. stash@{n-1}, newest first.
listStashes(n) == [i \in 1..n |-> i - 1]

\* ---------------------------------------------------------------------------
\* Texts shown in the panels
\* ---------------------------------------------------------------------------
NoText == << >>
StashDiffText(ref) == << "stash diff", ref >>
FileDiffText(file) == << "file diff", file.Path, file.IsStaged >>
ErrorLoadingDiff == << "Error loading diff" >>

\* ---------------------------------------------------------------------------
\* Commands (src/main.go 963-1042)
\* ---------------------------------------------------------------------------
NoFile == FileChange("", "", FALSE)

Cmd(op, ref, file, files, message) ==
    [op |-> op, ref |-> ref, file |-> file, files |-> files, message |-> message]

getStashDiff(ref) == Cmd("getStashDiff", ref, NoFile, {}, 0)
dropStash(ref) == Cmd("dropStash", ref, NoFile, {}, 0)
applyStash(ref) == Cmd("applyStash", ref, NoFile, {}, 0)
getChangedFiles == Cmd("getChangedFiles", NoRef, NoFile, {}, 0)
getFileDiff(file) == Cmd("getFileDiff", NoRef, file, {}, 0)
\* A mutation of createStash: the message is left out.
createStashUntitled(files, message) == Cmd("createStash", NoRef, NoFile, files, 0)
createStash(files, message) == Cmd("createStash", NoRef, NoFile, files, message)
restoreWorkingDirectory == Cmd("restoreWorkingDirectory", NoRef, NoFile, {}, 0)

\* ---------------------------------------------------------------------------
\* Keys
\* ---------------------------------------------------------------------------
\* One key of each kind Update and the widgets tell apart: Y, N, S, R and
\* ctrl+c take the cases of y, n, s, r and q everywhere; x is any other
\* character.
Keys == {"q", "tab", "y", "n", "esc", "enter", " ", "d", "a", "s", "r",
         "up", "down", "x", "backspace"}

\* Keys that insert a character into a focused text input.
Runes == {"y", "n", " ", "d", "a", "s", "r", "x"}

VARIABLES
    \* model (src/main.go 818-841)
    mode, activeModal, loading, err,
    stashItems, stashIndex, diff, selectedRef,
    fileItems, fileIndex, selectedFiles, expandedFiles, fileDiffs,
    stashInput,
    \* the program around the model
    inflight,      \* bag of commands returned by Update, not yet completed
    gitStashes,    \* number of stashes in the repository
    trees,         \* the outputs `git status --porcelain` can give
    faults,        \* git commands that failed for an outside reason so far
    caps,          \* the bounds of this run, as Init sets them
    exited,        \* "running", "quit" (tea.Quit) or "panic"
    \* the call of Update just made, when it got a key under an active modal
    modalKey,      \* the modal and the key, if the switch names the key there
    forwarded,     \* the widgets the key was passed on to
    \* the diff fetch the confirm-selection key has started and that has not
    \* completed yet, in the runs that watch that key
    viewing,
    \* the completion message Update was just called with and how its command
    \* ended, in the runs that watch the operation
    handled,
    \* the stash diff fetch started last, in the runs that watch getStashDiff
    lastFetch

\* The fields a handler of Update writes; the two list indices are written
\* where the message is passed on to the widgets.
modelVars == << mode, activeModal, loading, err, stashItems, diff,
                selectedRef, fileItems, selectedFiles, expandedFiles,
                fileDiffs, stashInput >>
vars == << mode, activeModal, loading, err, stashItems, stashIndex, diff,
           selectedRef, fileItems, fileIndex, selectedFiles, expandedFiles,
           fileDiffs, stashInput, inflight, gitStashes, trees, faults, caps,
           exited, modalKey, forwarded, viewing, handled, lastFetch >>


NoError == "nil"
Running == "running"

\* ---------------------------------------------------------------------------
\* The list widget, as main.go uses it (list.New with the default key map)
\* ---------------------------------------------------------------------------
\* SelectedItem() is nil when the index is past the items.
HasSelectedItem(items, index) == index >= 0 /\ index < Len(items)
SelectedItem(items, index) == items[index + 1]

\* The keys on which list.Update returns tea.Quit.
ListQuitKeys == {"q", "esc", "ctrl+c"}

\* The index after list.Update(msg): the cursor keys move it, and it is kept
\* within the items.  key is "" for a message that is not a key.
ListUpdateIndex(items, index, key) ==
    LET moved == CASE key = "up" /\ index > 0 -> index - 1
                   [] key = "down" /\ index < Len(items) - 1 -> index + 1
                   [] OTHER -> index
    IN  IF moved > Len(items) - 1
        THEN (IF Len(items) = 0 THEN 0 ELSE Len(items) - 1)
        ELSE moved

\* ---------------------------------------------------------------------------
\* What a call of Update leaves behind, besides the model
\* ---------------------------------------------------------------------------
RECURSIVE BagOfSeq(_)
BagOfSeq(cmds) ==
    IF cmds = <<>> THEN EmptyBag
    ELSE SetToBag({Head(cmds)}) (+) BagOfSeq(Tail(cmds))

\* Update returns cmds: the runtime starts them.
Returns(cmds) ==
    /\ BagCardinality(inflight) + Len(cmds) <= caps.inflight
    /\ inflight' = inflight (+) BagOfSeq(cmds)

\* Update was called with the completion message of c and returns cmds.
Completes(c, cmds) ==
    /\ inflight' = (inflight (-) SetToBag({c})) (+) BagOfSeq(cmds)

\* src/main.go 1328-1343: the message is passed on to the viewport and the
\* list of the current mode if no modal is active once the handler is done.
Forward(key) ==
    IF activeModal' = ModalNone
    THEN /\ exited' = IF key \in ListQuitKeys THEN "quit" ELSE Running
         /\ IF mode' = ModeExplore
            THEN /\ forwarded' = IF key # "" /\ activeModal # ModalNone
                                 THEN "explore" ELSE "none"
                 /\ stashIndex' = ListUpdateIndex(stashItems', stashIndex, key)
                 /\ fileIndex' = fileIndex
            ELSE /\ forwarded' = IF key # "" /\ activeModal # ModalNone
                                 THEN "build" ELSE "none"
                 /\ fileIndex' = ListUpdateIndex(fileItems', fileIndex, key)
                 /\ stashIndex' = stashIndex
    ELSE /\ forwarded' = "none"
         /\ exited' = Running
         /\ UNCHANGED << stashIndex, fileIndex >>

\* Update returned from inside the handler: nothing is passed on.
ReturnsEarly(exit) ==
    /\ forwarded' = "none"
    /\ exited' = exit
    /\ UNCHANGED << stashIndex, fileIndex >>

perFileMaps == << selectedFiles, expandedFiles, fileDiffs >>

\* A mutation of ClearPerFileMaps: the expansion map is forgotten.
ClearAllButExpanded ==
    /\ selectedFiles' = EmptyMap
    /\ fileDiffs' = EmptyMap
    /\ UNCHANGED expandedFiles

\* src/main.go 1105-1107, 1287-1289, 1314-1316
ClearPerFileMaps ==
    /\ selectedFiles' = EmptyMap
    /\ expandedFiles' = EmptyMap
    /\ fileDiffs' = EmptyMap

\* ---------------------------------------------------------------------------
\* Update, case tea.KeyMsg (src/main.go 1089-1216)
\* ---------------------------------------------------------------------------
\* src/main.go 1091-1096
QuitKey(key) ==
    /\ key \in {"ctrl+c", "q"}
    /\ IF activeModal # ModalNone
       THEN /\ activeModal' = ModalNone
            /\ Returns(<<>>)
            /\ UNCHANGED << mode, loading, err, stashItems, diff, selectedRef,
                            fileItems, perFileMaps, stashInput >>
            /\ Forward(key)
       ELSE /\ Returns(<<>>)
            /\ UNCHANGED << mode, activeModal, loading, err, stashItems, diff,
                            selectedRef, fileItems, perFileMaps, stashInput >>
            /\ ReturnsEarly("quit")

\* src/main.go 1097-1108
TabKey(key) ==
    /\ key = "tab"
    /\ IF mode = ModeExplore
       THEN /\ mode' = ModeBuild
            /\ Returns(<< getChangedFiles >>)
            /\ UNCHANGED << activeModal, loading, err, stashItems, diff,
                            selectedRef, fileItems, perFileMaps, stashInput >>
            /\ ReturnsEarly(Running)
       ELSE /\ mode' = ModeExplore
            /\ ClearPerFileMaps
            /\ Returns(<<>>)
            /\ UNCHANGED << activeModal, loading, err, stashItems, diff,
                            selectedRef, fileItems, stashInput >>
            /\ Forward(key)

\* A mutation of Affirmative: the negative keys confirm as well.
AffirmativeOrNegative == {"y", "Y", "n", "N"}

\* src/main.go 1111, 1120, 1153: the keys that confirm a confirm modal.
Affirmative == {"y", "Y"}

\* src/main.go 1109-1117
DeleteConfirmKey(key) ==
    /\ activeModal = ModalDeleteConfirm
    /\ CASE key \in Affirmative ->
              /\ activeModal' = ModalNone
              /\ Returns(<< dropStash(selectedRef) >>)
              /\ UNCHANGED << mode, loading, err, stashItems, diff, selectedRef,
                              fileItems, perFileMaps, stashInput >>
              /\ ReturnsEarly(Running)
         [] key \in {"n", "N", "esc"} ->
              /\ activeModal' = ModalNone
              /\ Returns(<<>>)
              /\ UNCHANGED << mode, loading, err, stashItems, diff, selectedRef,
                              fileItems, perFileMaps, stashInput >>
              /\ Forward(key)
         [] OTHER ->
              /\ Returns(<<>>)
              /\ UNCHANGED modelVars
              /\ Forward(key)

\* src/main.go 1118-1127
ApplyConfirmKey(key) ==
    /\ activeModal = ModalApplyConfirm
    /\ CASE key \in Affirmative ->
              /\ activeModal' = ModalNone
              /\ loading' = TRUE
              /\ Returns(<< applyStash(selectedRef) >>)
              /\ UNCHANGED << mode, err, stashItems, diff, selectedRef,
                              fileItems, perFileMaps, stashInput >>
              /\ ReturnsEarly(Running)
         [] key \in {"n", "N", "esc"} ->
              /\ activeModal' = ModalNone
              /\ Returns(<<>>)
              /\ UNCHANGED << mode, loading, err, stashItems, diff, selectedRef,
                              fileItems, perFileMaps, stashInput >>
              /\ Forward(key)
         [] OTHER ->
              /\ Returns(<<>>)
              /\ UNCHANGED modelVars
              /\ Forward(key)


\* The keys that get past the quit and tab cases of the switch.
PastQuitAndTab(key) == key \notin {"ctrl+c", "q", "tab"}

\* textinput.Update(msg): a character key appends, backspace deletes.
\* The text is kept by its length.
TextInputUpdate(len, key) ==
    CASE key \in Runes -> len + 1
      [] key = "backspace" /\ len > 0 -> len - 1
      [] OTHER -> len

\* The values of a Go map, as createStash gets them (in no order).
MapValues(m) == { m[k] : k \in DOMAIN m }

\* A mutation of MessageGiven: the message is not looked at.
MessageGivenAlways(input) == input >= 0

\* src/main.go 1132: message != "", on the length of the text.
MessageGiven(input) == input # 0

\* src/main.go 1128-1150
StashMessageKey(key) ==
    /\ activeModal = ModalStashMessage
    /\ CASE key = "enter" ->
              IF MessageGiven(stashInput)
              THEN /\ activeModal' = ModalNone
                   /\ loading' = TRUE
                   /\ stashInput' = 0
                   /\ Returns(<< createStash(MapValues(selectedFiles), stashInput) >>)
                   /\ UNCHANGED << mode, err, stashItems, diff, selectedRef,
                                   fileItems, perFileMaps >>
                   /\ ReturnsEarly(Running)
              ELSE /\ Returns(<<>>)
                   /\ UNCHANGED modelVars
                   /\ Forward(key)
         [] key = "esc" ->
              /\ activeModal' = ModalNone
              /\ stashInput' = 0
              /\ Returns(<<>>)
              /\ UNCHANGED << mode, loading, err, stashItems, diff, selectedRef,
                              fileItems, perFileMaps >>
              /\ Forward(key)
         [] OTHER ->
              /\ TextInputUpdate(stashInput, key) <= caps.input
              /\ stashInput' = TextInputUpdate(stashInput, key)
              /\ Returns(<<>>)
              /\ UNCHANGED << mode, activeModal, loading, err, stashItems, diff,
                              selectedRef, fileItems, perFileMaps >>
              /\ ReturnsEarly(Running)

\* src/main.go 1151-1159
RestoreConfirmKey(key) ==
    /\ activeModal = ModalRestoreConfirm
    /\ CASE key \in Affirmative ->
              /\ activeModal' = ModalNone
              /\ loading' = TRUE
              /\ Returns(<< restoreWorkingDirectory >>)
              /\ UNCHANGED << mode, err, stashItems, diff, selectedRef,
                              fileItems, perFileMaps, stashInput >>
              /\ ReturnsEarly(Running)
         [] key \in {"n", "N", "esc"} ->
              /\ activeModal' = ModalNone
              /\ Returns(<<>>)
              /\ UNCHANGED << mode, loading, err, stashItems, diff, selectedRef,
                              fileItems, perFileMaps, stashInput >>
              /\ Forward(key)
         [] OTHER ->
              /\ Returns(<<>>)
              /\ UNCHANGED modelVars
              /\ Forward(key)

\* src/main.go 1161-1179
ExploreKey(key) ==
    /\ activeModal = ModalNone
    /\ mode = ModeExplore
    /\ LET ok == HasSelectedItem(stashItems, stashIndex)
           sel == SelectedItem(stashItems, stashIndex)
       IN  CASE key = "enter" /\ ok ->
                  /\ loading' = TRUE
                  /\ Returns(<< getStashDiff(sel) >>)
                  /\ UNCHANGED << mode, activeModal, err, stashItems, diff,
                                  selectedRef, fileItems, perFileMaps, stashInput >>
                  /\ ReturnsEarly(Running)
             [] key = "d" /\ ok ->
                  /\ selectedRef' = sel
                  /\ activeModal' = ModalDeleteConfirm
                  /\ Returns(<<>>)
                  /\ UNCHANGED << mode, loading, err, stashItems, diff,
                                  fileItems, perFileMaps, stashInput >>
                  /\ Forward(key)
             [] key = "a" /\ ok ->
                  /\ selectedRef' = sel
                  /\ activeModal' = ModalApplyConfirm
                  /\ Returns(<<>>)
                  /\ UNCHANGED << mode, loading, err, stashItems, diff,
                                  fileItems, perFileMaps, stashInput >>
                  /\ Forward(key)
             [] OTHER ->
                  /\ Returns(<<>>)
                  /\ UNCHANGED modelVars
                  /\ Forward(key)

\* m[key] read from a Go map of booleans: false when the key is absent.
MapGetBool(m, key) == IF key \in DOMAIN m THEN m[key] ELSE FALSE

\* A mutation of Deselect: the cached diff is left behind.
DeselectKeepsDiff(path) ==
    /\ selectedFiles' = MapDelete(selectedFiles, path)
    /\ expandedFiles' = MapDelete(expandedFiles, path)
    /\ UNCHANGED fileDiffs

\* src/main.go 1194-1196
Deselect(path) ==
    /\ selectedFiles' = MapDelete(selectedFiles, path)
    /\ expandedFiles' = MapDelete(expandedFiles, path)
    /\ fileDiffs' = MapDelete(fileDiffs, path)

\* A mutation of HasSelection: the selection is not looked at.
HasSelectionAlways(selected) == DOMAIN selected = DOMAIN selected

\* src/main.go 1208: len(m.selectedFiles) > 0
HasSelection(selected) == DOMAIN selected # {}

\* src/main.go 1180-1215
BuildKey(key) ==
    /\ activeModal = ModalNone
    /\ mode = ModeBuild
    /\ LET ok == HasSelectedItem(fileItems, fileIndex)
           sel == SelectedItem(fileItems, fileIndex)
       IN  CASE key \in {"enter", " "} /\ ok /\ sel.Path \in DOMAIN selectedFiles ->
                  /\ IF key = " "
                     THEN /\ expandedFiles' =
                               MapPut(expandedFiles, sel.Path,
                                      ~MapGetBool(expandedFiles, sel.Path))
                          /\ UNCHANGED << selectedFiles, fileDiffs >>
                     ELSE Deselect(sel.Path)
                  /\ Returns(<<>>)
                  /\ UNCHANGED << mode, activeModal, loading, err, stashItems,
                                  diff, selectedRef, fileItems, stashInput >>
                  /\ Forward(key)
             [] key \in {"enter", " "} /\ ok /\ sel.Path \notin DOMAIN selectedFiles ->
                  /\ selectedFiles' = MapPut(selectedFiles, sel.Path, sel)
                  /\ expandedFiles' = MapPut(expandedFiles, sel.Path, FALSE)
                  /\ Returns(<< getFileDiff(sel) >>)
                  /\ UNCHANGED << mode, activeModal, loading, err, stashItems,
                                  diff, selectedRef, fileItems, fileDiffs,
                                  stashInput >>
                  /\ ReturnsEarly(Running)
             [] key \in {"s", "S"} /\ HasSelection(selectedFiles) ->
                  /\ activeModal' = ModalStashMessage
                  /\ Returns(<<>>)
                  /\ UNCHANGED << mode, loading, err, stashItems, diff,
                                  selectedRef, fileItems, perFileMaps, stashInput >>
                  /\ Forward(key)
             [] key \in {"r", "R"} ->
                  /\ activeModal' = ModalRestoreConfirm
                  /\ Returns(<<>>)
                  /\ UNCHANGED << mode, loading, err, stashItems, diff,
                                  selectedRef, fileItems, perFileMaps, stashInput >>
                  /\ Forward(key)
             [] OTHER ->
                  /\ Returns(<<>>)
                  /\ UNCHANGED modelVars
                  /\ Forward(key)


\* ---------------------------------------------------------------------------
\* The git commands
\* ---------------------------------------------------------------------------
\* A command that names a stash needs the stash to be there.
ValidRef(c) ==
    c.op \in {"getStashDiff", "dropStash", "applyStash"} => c.ref < gitStashes

\* A mutation of restoreWorkingDirectoryRun: git clean runs whatever
\* git restore returned.
restoreWorkingDirectoryCleansAnyway(restoreErr, cleanErr) ==
    [invoked |-> << "git restore .", "git clean -f -d" >>,
     output |-> << "restoreOut", "cleanOut" >>,
     err |-> cleanErr]

\* src/main.go 1023-1041: the function restoreWorkingDirectory returns, run
\* where git restore ends with restoreErr and git clean, if it is run, with
\* cleanErr: the commands invoked, and the output and err of the message.
restoreWorkingDirectoryRun(restoreErr, cleanErr) ==
    IF restoreErr # NoError
    THEN [invoked |-> << "git restore ." >>,
          output |-> << "restoreOut" >>,
          err |-> restoreErr]
    ELSE [invoked |-> << "git restore .", "git clean -f -d" >>,
          output |-> << "restoreOut", "cleanOut" >>,
          err |-> cleanErr]

\* How the two git commands of a restore can end: either may fail for a
\* reason outside the program.
RestoreOutcomes ==
    LET errs(name) == {NoError} \cup (IF faults < caps.faults THEN {name} ELSE {})
    IN  { [ok |-> restoreWorkingDirectoryRun(restoreErr, cleanErr).err = NoError,
           fault |-> IF restoreWorkingDirectoryRun(restoreErr, cleanErr).err = NoError
                     THEN 0 ELSE 1,
           restoreErr |-> restoreErr,
           cleanErr |-> cleanErr,
           msg |-> restoreWorkingDirectoryRun(restoreErr, cleanErr)] :
          restoreErr \in errs("git restore"), cleanErr \in errs("git clean") }

\* How the git command of c can end: it succeeds, it fails because its stash
\* is gone, or it fails for a reason outside the program (fault = 1).
Outcomes(c) ==
    IF c.op = "restoreWorkingDirectory"
    THEN RestoreOutcomes
    ELSE (IF ValidRef(c) THEN { [ok |-> TRUE, fault |-> 0] }
                         ELSE { [ok |-> FALSE, fault |-> 0] })
           \cup (IF faults < caps.faults THEN { [ok |-> FALSE, fault |-> 1] } ELSE {})

\* What listStashes() returns when the repository holds n stashes and
\* canFail says whether it may fail: the references, or an error and no stashes.
ListStashesResults(n, canFail) ==
    { [stashes |-> listStashes(n), err |-> NoError, fault |-> 0] }
      \cup (IF canFail
            THEN { [stashes |-> <<>>, err |-> "listStashes", fault |-> 1] }
            ELSE {})

\* ---------------------------------------------------------------------------
\* Update, the completion messages (src/main.go 1218-1324)
\* ---------------------------------------------------------------------------
\* A mutation of StashDiffMsg: loading is not set back.
StashDiffMsgKeepsLoading(c, o) ==
    /\ c.op = "getStashDiff"
    /\ faults' = faults + o.fault
    /\ UNCHANGED loading
    /\ diff' = IF o.ok THEN StashDiffText(c.ref) ELSE ErrorLoadingDiff
    /\ Completes(c, <<>>)
    /\ UNCHANGED << mode, activeModal, err, stashItems, selectedRef, fileItems,
                    perFileMaps, stashInput, gitStashes >>
    /\ Forward("")

\* src/main.go 1218-1226
StashDiffMsg(c, o) ==
    /\ c.op = "getStashDiff"
    /\ faults' = faults + o.fault
    /\ loading' = FALSE
    /\ diff' = IF o.ok THEN StashDiffText(c.ref) ELSE ErrorLoadingDiff
    /\ Completes(c, <<>>)
    /\ UNCHANGED << mode, activeModal, err, stashItems, selectedRef, fileItems,
                    perFileMaps, stashInput, gitStashes >>
    /\ Forward("")

\* src/main.go 1228-1250
StashDeletedMsg(c, o) ==
    /\ c.op = "dropStash"
    /\ IF ~o.ok
       THEN /\ err' = "dropStash"
            /\ faults' = faults + o.fault
            /\ Completes(c, <<>>)
            /\ UNCHANGED << mode, activeModal, loading, stashItems, diff,
                            selectedRef, fileItems, perFileMaps, stashInput,
                            gitStashes >>
            /\ Forward("")
       ELSE /\ gitStashes' = gitStashes - 1
            /\ \E r \in ListStashesResults(gitStashes - 1, faults < caps.faults) :
                 /\ faults' = faults + r.fault
                 /\ IF Len(r.stashes) > 0 /\ ~HasSelectedItem(r.stashes, stashIndex)
                    THEN \* SelectedItem() is nil: the type assertion panics
                         /\ Completes(c, <<>>)
                         /\ UNCHANGED modelVars
                         /\ ReturnsEarly("panic")
                    ELSE /\ stashItems' = r.stashes
                         /\ Completes(c, IF Len(r.stashes) > 0
                                         THEN << getStashDiff(SelectedItem(r.stashes, stashIndex)) >>
                                         ELSE <<>>)
                         /\ UNCHANGED << mode, activeModal, loading, err, diff,
                                         selectedRef, fileItems, perFileMaps,
                                         stashInput >>
                         /\ Forward("")

\* A mutation of StashAppliedMsg: loading is not set back.
StashAppliedMsgKeepsLoading(c, o) ==
    /\ c.op = "applyStash"
    /\ faults' = faults + o.fault
    /\ Completes(c, <<>>)
    /\ UNCHANGED << mode, activeModal, loading, err, stashItems, diff,
                    selectedRef, fileItems, perFileMaps, stashInput, gitStashes >>
    /\ Forward("")

\* src/main.go 1252-1259
StashAppliedMsg(c, o) ==
    /\ c.op = "applyStash"
    /\ faults' = faults + o.fault
    /\ loading' = FALSE
    /\ Completes(c, <<>>)
    /\ UNCHANGED << mode, activeModal, err, stashItems, diff, selectedRef,
                    fileItems, perFileMaps, stashInput, gitStashes >>
    /\ Forward("")

\* A mutation of ChangedFilesMsg: a successful scan clears the stored error.
ChangedFilesMsgClearsError(c, o) ==
    /\ c.op = "getChangedFiles"
    /\ faults' = faults + o.fault
    /\ IF ~o.ok
       THEN /\ err' = "getChangedFiles"
            /\ UNCHANGED fileItems
       ELSE /\ \E out \in trees : fileItems' = listChangedFiles(out)
            /\ err' = NoError
    /\ Completes(c, <<>>)
    /\ UNCHANGED << mode, activeModal, loading, stashItems, diff, selectedRef,
                    perFileMaps, stashInput, gitStashes >>
    /\ Forward("")

\* src/main.go 1261-1270
ChangedFilesMsg(c, o) ==
    /\ c.op = "getChangedFiles"
    /\ faults' = faults + o.fault
    /\ IF ~o.ok
       THEN /\ err' = "getChangedFiles"
            /\ UNCHANGED fileItems
       ELSE /\ \E out \in trees : fileItems' = listChangedFiles(out)
            /\ UNCHANGED err
    /\ Completes(c, <<>>)
    /\ UNCHANGED << mode, activeModal, loading, stashItems, diff, selectedRef,
                    perFileMaps, stashInput, gitStashes >>
    /\ Forward("")

\* A mutation of FileDiffMsg: the result is stored under the highlighted file.
FileDiffMsgByHighlight(c, o) ==
    /\ c.op = "getFileDiff"
    /\ faults' = faults + o.fault
    /\ fileDiffs' = MapPut(fileDiffs,
                           IF HasSelectedItem(fileItems, fileIndex)
                           THEN SelectedItem(fileItems, fileIndex).Path
                           ELSE c.file.Path,
                           IF o.ok THEN FileDiffText(c.file) ELSE ErrorLoadingDiff)
    /\ Completes(c, <<>>)
    /\ UNCHANGED << mode, activeModal, loading, err, stashItems, diff,
                    selectedRef, fileItems, selectedFiles, expandedFiles,
                    stashInput, gitStashes >>
    /\ Forward("")

\* src/main.go 1272-1279
FileDiffMsg(c, o) ==
    /\ c.op = "getFileDiff"
    /\ faults' = faults + o.fault
    /\ fileDiffs' = MapPut(fileDiffs, c.file.Path,
                           IF o.ok THEN FileDiffText(c.file) ELSE ErrorLoadingDiff)
    /\ Completes(c, <<>>)
    /\ UNCHANGED << mode, activeModal, loading, err, stashItems, diff,
                    selectedRef, fileItems, selectedFiles, expandedFiles,
                    stashInput, gitStashes >>
    /\ Forward("")

\* A mutation of StashCreatedMsg: the mode is left as it is.
StashCreatedMsgKeepsMode(c, o) ==
    /\ c.op = "createStash"
    /\ loading' = FALSE
    /\ UNCHANGED << activeModal, err, diff, selectedRef, fileItems, stashInput >>
    /\ IF ~o.ok
       THEN /\ faults' = faults + o.fault
            /\ Completes(c, <<>>)
            /\ UNCHANGED << mode, stashItems, perFileMaps, gitStashes >>
            /\ Forward("")
       ELSE \* git stash push saves a stash, or finds no local changes to save
            /\ \E saved \in {0, 1} :
                 /\ gitStashes + saved <= caps.stashes
                 /\ gitStashes' = gitStashes + saved
            /\ ClearPerFileMaps
            /\ UNCHANGED mode
            /\ \E r \in ListStashesResults(gitStashes', faults < caps.faults) :
                 /\ faults' = faults + r.fault
                 /\ IF r.err = NoError
                    THEN /\ stashItems' = r.stashes
                         /\ IF Len(r.stashes) > 0
                            THEN /\ Completes(c, << getStashDiff(r.stashes[1]) >>)
                                 /\ ReturnsEarly(Running)
                            ELSE /\ Completes(c, <<>>)
                                 /\ Forward("")
                    ELSE /\ UNCHANGED stashItems
                         /\ Completes(c, <<>>)
                         /\ Forward("")

\* src/main.go 1281-1306
StashCreatedMsg(c, o) ==
    /\ c.op = "createStash"
    /\ loading' = FALSE
    /\ UNCHANGED << activeModal, err, diff, selectedRef, fileItems, stashInput >>
    /\ IF ~o.ok
       THEN /\ faults' = faults + o.fault
            /\ Completes(c, <<>>)
            /\ UNCHANGED << mode, stashItems, perFileMaps, gitStashes >>
            /\ Forward("")
       ELSE \* git stash push saves a stash, or finds no local changes to save
            /\ \E saved \in {0, 1} :
                 /\ gitStashes + saved <= caps.stashes
                 /\ gitStashes' = gitStashes + saved
            /\ ClearPerFileMaps
            /\ mode' = ModeExplore
            /\ \E r \in ListStashesResults(gitStashes', faults < caps.faults) :
                 /\ faults' = faults + r.fault
                 /\ IF r.err = NoError
                    THEN /\ stashItems' = r.stashes
                         /\ IF Len(r.stashes) > 0
                            THEN /\ Completes(c, << getStashDiff(r.stashes[1]) >>)
                                 /\ ReturnsEarly(Running)
                            ELSE /\ Completes(c, <<>>)
                                 /\ Forward("")
                    ELSE /\ UNCHANGED stashItems
                         /\ Completes(c, <<>>)
                         /\ Forward("")

\* A mutation of WorkingDirectoryRestoredMsg: the maps are cleared on failure
\* as well.
WorkingDirectoryRestoredMsgClearsAlways(c, o) ==
    /\ c.op = "restoreWorkingDirectory"
    /\ faults' = faults + o.fault
    /\ loading' = FALSE
    /\ UNCHANGED << mode, activeModal, err, stashItems, diff, selectedRef,
                    fileItems, stashInput, gitStashes >>
    /\ IF ~o.ok
       THEN /\ Completes(c, <<>>)
            /\ ClearPerFileMaps
            /\ Forward("")
       ELSE /\ ClearPerFileMaps
            /\ Completes(c, << getChangedFiles >>)
            /\ ReturnsEarly(Running)

\* src/main.go 1308-1324
WorkingDirectoryRestoredMsg(c, o) ==
    /\ c.op = "restoreWorkingDirectory"
    /\ faults' = faults + o.fault
    /\ loading' = FALSE
    /\ UNCHANGED << mode, activeModal, err, stashItems, diff, selectedRef,
                    fileItems, stashInput, gitStashes >>
    /\ IF ~o.ok
       THEN /\ Completes(c, <<>>)
            /\ UNCHANGED perFileMaps
            /\ Forward("")
       ELSE /\ ClearPerFileMaps
            /\ Completes(c, << getChangedFiles >>)
            /\ ReturnsEarly(Running)

\* src/main.go 1052-1087: the panel sizes, which the model does not keep.
WindowSizeMsg ==
    /\ Returns(<<>>)
    /\ UNCHANGED modelVars
    /\ Forward("")

\* src/main.go 1428-1463: which of its screens View renders.
View ==
    CASE err # NoError -> "error"
      [] err = NoError /\ activeModal # ModalNone -> "modal"
      [] OTHER -> mode

\* ---------------------------------------------------------------------------
\* The program: initialModel, Init, and the runtime calling Update
\* ---------------------------------------------------------------------------
\* The keys the switch of Update names while modal is active.
NamedKeys(modal) ==
    CASE modal \in {ModalDeleteConfirm, ModalApplyConfirm, ModalRestoreConfirm} ->
           {"q", "tab", "y", "n", "esc"}
      [] modal = ModalStashMessage -> {"q", "tab", "enter", "esc"}
      [] OTHER -> {}

NoModalKey == [modal |-> ModalNone, key |-> ""]

\* The bounds of a run; watch is the set of keys whose handling outside a
\* modal the run records as well (in modalKey and viewing), and of operations
\* whose completion (in handled) or start (in lastFetch) it records.
Caps(stashes, inFlight, faultsMax, input) ==
    [stashes |-> stashes, inflight |-> inFlight, faults |-> faultsMax,
     input |-> input, watch |-> {}]

Watching(bounds, keys) == [bounds EXCEPT !.watch = keys]

NoCmd == Cmd("", NoRef, NoFile, {}, 0)
NoMsg == [op |-> "", result |-> [ok |-> TRUE, fault |-> 0]]

\* The commands a step starts, and the commands whose completion it handles.
Dispatched ==
    { c \in BagToSet(inflight') : CopiesIn(c, inflight') > CopiesIn(c, inflight) }
Completed ==
    { c \in BagToSet(inflight) : CopiesIn(c, inflight') < CopiesIn(c, inflight) }

\* src/main.go 843-894: the program starts in a repository that holds one of
\* stashCounts stashes and whose working tree gives one of statusOutputs.
InitWith(stashCounts, statusOutputs, bounds) ==
    /\ gitStashes \in stashCounts
    /\ trees = statusOutputs
    /\ caps = bounds
    /\ \E r \in ListStashesResults(gitStashes, bounds.faults > 0) :
         /\ stashItems = r.stashes
         /\ err = r.err
         /\ faults = r.fault
    /\ stashIndex = 0
    /\ mode = ModeExplore
    /\ activeModal = ModalNone
    /\ loading = FALSE
    /\ diff = NoText
    /\ selectedRef = NoRef
    /\ fileItems = <<>>
    /\ fileIndex = 0
    /\ selectedFiles = EmptyMap
    /\ expandedFiles = EmptyMap
    /\ fileDiffs = EmptyMap
    /\ stashInput = 0
    /\ inflight = IF Len(stashItems) > 0
                  THEN SetToBag({getStashDiff(SelectedItem(stashItems, 0))})
                  ELSE EmptyBag
    /\ exited = Running
    /\ modalKey = NoModalKey
    /\ forwarded = "none"
    /\ viewing = NoCmd
    /\ handled = NoMsg
    /\ lastFetch = IF "getStashDiff" \in bounds.watch /\ Len(stashItems) > 0
                   THEN getStashDiff(SelectedItem(stashItems, 0))
                   ELSE NoCmd

Init ==
    InitWith(0..MaxStashes, StatusOutputs,
             Caps(MaxStashes, MaxInFlight, MaxFaults, MaxInput))

\* The runtime calls Update with a message; handler is the case it takes.
Update(handler) ==
    /\ exited = Running
    /\ UNCHANGED << trees, caps >>
    /\ handler
    /\ lastFetch' = IF /\ "getStashDiff" \in caps.watch
                       /\ \E c \in Dispatched : c.op = "getStashDiff"
                    THEN CHOOSE c \in Dispatched : c.op = "getStashDiff"
                    ELSE lastFetch

\* A key: no git command has run.
Key(key, handler) ==
    /\ Update(handler)
    /\ UNCHANGED << gitStashes, faults >>
    /\ modalKey' = IF \/ key \in NamedKeys(activeModal)
                      \/ (activeModal = ModalNone /\ key \in caps.watch)
                   THEN [modal |-> activeModal, key |-> key]
                   ELSE NoModalKey
    /\ viewing' = IF /\ key = "enter" /\ key \in caps.watch
                     /\ activeModal = ModalNone /\ mode = ModeExplore
                     /\ Dispatched # {}
                  THEN CHOOSE c \in Dispatched : TRUE
                  ELSE viewing
    /\ handled' = NoMsg

\* A message that is not a key.
Message(handler) ==
    /\ Update(handler)
    /\ modalKey' = NoModalKey
    /\ viewing' = IF viewing \in Completed THEN NoCmd ELSE viewing

\* The completion message of c, whose git command ended as o.
Completion(c, o, handler) ==
    /\ Message(handler)
    /\ handled' = IF c.op \in caps.watch
                  THEN [op |-> c.op, result |-> o]
                  ELSE NoMsg

Next ==
    \/ Message(WindowSizeMsg /\ UNCHANGED << gitStashes, faults >> /\ handled' = NoMsg)
    \/ \E key \in Keys : Key(key, QuitKey(key))
    \/ \E key \in Keys : Key(key, TabKey(key))
    \/ \E key \in Keys : Key(key, PastQuitAndTab(key) /\ DeleteConfirmKey(key))
    \/ \E key \in Keys : Key(key, PastQuitAndTab(key) /\ ApplyConfirmKey(key))
    \/ \E key \in Keys : Key(key, PastQuitAndTab(key) /\ StashMessageKey(key))
    \/ \E key \in Keys : Key(key, PastQuitAndTab(key) /\ RestoreConfirmKey(key))
    \/ \E key \in Keys : Key(key, PastQuitAndTab(key) /\ ExploreKey(key))
    \/ \E key \in Keys : Key(key, PastQuitAndTab(key) /\ BuildKey(key))
    \/ \E c \in BagToSet(inflight) : \E o \in Outcomes(c) : Completion(c, o, StashDiffMsg(c, o))
    \/ \E c \in BagToSet(inflight) : \E o \in Outcomes(c) : Completion(c, o, StashDeletedMsg(c, o))
    \/ \E c \in BagToSet(inflight) : \E o \in Outcomes(c) : Completion(c, o, StashAppliedMsg(c, o))
    \/ \E c \in BagToSet(inflight) : \E o \in Outcomes(c) : Completion(c, o, ChangedFilesMsg(c, o))
    \/ \E c \in BagToSet(inflight) : \E o \in Outcomes(c) : Completion(c, o, FileDiffMsg(c, o))
    \/ \E c \in BagToSet(inflight) : \E o \in Outcomes(c) : Completion(c, o, StashCreatedMsg(c, o))
    \/ \E c \in BagToSet(inflight) : \E o \in Outcomes(c) :
         Completion(c, o, WorkingDirectoryRestoredMsg(c, o))

Spec == Init /\ [][Next]_vars

\* A repository of up to one stash more, one more operation in flight and one
\* more outside failure.
InitWide ==
    InitWith(0..(MaxStashes + 1), StatusOutputs,
             Caps(MaxStashes + 1, MaxInFlight + 1, MaxFaults + 1, MaxInput))

SpecWide == InitWide /\ [][Next]_vars

\* The runs in which the initial load of the stash list fails.
InitBootFailure ==
    /\ InitWith(0..MaxStashes, StatusOutputs,
                Caps(MaxStashes, MaxInFlight, MaxFaults + 1, MaxInput))
    /\ err # NoError

SpecBootFailure == InitBootFailure /\ [][Next]_vars

\* A working tree with two changed files, and one more operation in flight.
TwoFileOutputs ==
    { <<>>,
      << StatusLine(" ", "M", "a.go"), StatusLine("?", "?", "b.go") >> }

InitTwoFiles ==
    InitWith(0..MaxStashes, TwoFileOutputs,
             Caps(MaxStashes, MaxInFlight + 1, MaxFaults, MaxInput))

SpecTwoFiles == InitTwoFiles /\ [][Next]_vars

\* The runs that record the Build mode keys Enter, Space and s, with two
\* changed files.
InitBuildKeys ==
    InitWith(0..MaxStashes, TwoFileOutputs,
             Watching(Caps(MaxStashes, MaxInFlight, MaxFaults, MaxInput),
                      {"enter", " ", "s"}))

SpecBuildKeys == InitBuildKeys /\ [][Next]_vars

\* The runs that follow the diff fetch of the confirm-selection key, with one
\* more operation in flight.
InitViewing ==
    InitWith(0..MaxStashes, StatusOutputs,
             Watching(Caps(MaxStashes, MaxInFlight + 1, MaxFaults, MaxInput),
                      {"enter"}))

SpecViewing == InitViewing /\ [][Next]_vars

\* The runs that record the completions of stash creation and restore, with
\* one more outside failure.
InitCompletions ==
    InitWith(0..MaxStashes, StatusOutputs,
             Watching(Caps(MaxStashes, MaxInFlight, MaxFaults + 1, MaxInput),
                      {"createStash", "restoreWorkingDirectory"}))

SpecCompletions == InitCompletions /\ [][Next]_vars

\* The lines `git status --porcelain` prints in the runs that follow the
\* scan: the pairs of columns git gives a modified, added, deleted or
\* untracked file, a path after two blanks, and lines of fewer than four
\* characters.
ScanColumns ==
    { << " ", "M" >>, << "M", " " >>, << "M", "M" >>, << "A", " " >>,
      << "A", "M" >>, << "D", " " >>, << " ", "D" >>, << "?", "?" >> }

ScanLines ==
    { StatusLine(xy[1], xy[2], "a.go") : xy \in ScanColumns }
      \cup { << "M", "M", " ", " ", "a.go" >>,
             << "M", "M", " " >>,
             << "M", " " >>,
             << >> }

\* The outputs: up to one line, and a line after each of two short ones.
ScanOutputs ==
    { <<>> } \cup { << line >> : line \in ScanLines }
      \cup { << short, StatusLine("M", " ", "b.go") >> :
               short \in { << "M", "M", " " >>, << >> } }

\* The runs in which the working tree gives one output, whatever it is, and
\* that record the completion of the scan.
InitScan ==
    \E out \in ScanOutputs :
        InitWith(0..MaxStashes, {out},
                 Watching(Caps(MaxStashes, MaxInFlight, MaxFaults, MaxInput),
                          {"getChangedFiles"}))

SpecScan == InitScan /\ [][Next]_vars

\* The runs that record the stash diff fetch started last, in a repository
\* of one stash more and with one more operation in flight.
InitFetches ==
    InitWith(0..(MaxStashes + 1), StatusOutputs,
             Watching(Caps(MaxStashes + 1, MaxInFlight + 1, MaxFaults, MaxInput),
                      {"getStashDiff"}))

SpecFetches == InitFetches /\ [][Next]_vars

\* A working tree with one file changed both in the index and in the tree,
\* and one more operation in flight.
StagedAndUnstagedOutputs ==
    { <<>>,
      << StatusLine("M", "M", "a.go") >> }

InitStagedAndUnstaged ==
    InitWith(0..MaxStashes, StagedAndUnstagedOutputs,
             Caps(MaxStashes, MaxInFlight + 1, MaxFaults, MaxInput))

SpecStagedAndUnstaged == InitStagedAndUnstaged /\ [][Next]_vars

\* The runtime delivers the completion message of a command in flight.
Deliver ==
    \E c \in BagToSet(inflight) : \E o \in Outcomes(c) :
        \/ Completion(c, o, StashDiffMsg(c, o))
        \/ Completion(c, o, StashDeletedMsg(c, o))
        \/ Completion(c, o, StashAppliedMsg(c, o))
        \/ Completion(c, o, ChangedFilesMsg(c, o))
        \/ Completion(c, o, FileDiffMsg(c, o))
        \/ Completion(c, o, StashCreatedMsg(c, o))
        \/ Completion(c, o, WorkingDirectoryRestoredMsg(c, o))

\* The runs in which every command in flight ends and has its completion
\* message delivered (the runtime runs each command in a goroutine of its
\* own and sends what it returns to Update), with one more operation in
\* flight and one more outside failure; they record the completion of an
\* apply.
InitLive ==
    InitWith(0..MaxStashes, StatusOutputs,
             Watching(Caps(MaxStashes, MaxInFlight + 1, MaxFaults + 1, MaxInput),
                      {"applyStash"}))

SpecLive == InitLive /\ [][Next]_vars /\ WF_vars(Deliver)

\* ---------------------------------------------------------------------------
\* The claims
\* ---------------------------------------------------------------------------
ConfirmModals == {ModalDeleteConfirm, ModalApplyConfirm, ModalRestoreConfirm}

\* C1: in every reachable state every key of the diff cache (fileDiffs) is a
\* key of the selection set (selectedFiles).
C1_DiffKeysAreSelected == DOMAIN fileDiffs \subseteq DOMAIN selectedFiles

\* C2: handling the completion of a file-diff fetch whose path is no longer a
\* key of the selection set changes none of the three per-file maps.
C2_StaleFileDiffIsNoOp ==
    [][\A c \in Completed :
          (c.op = "getFileDiff" /\ c.file.Path \notin DOMAIN selectedFiles)
              => UNCHANGED perFileMaps]_vars

\* C3: in every reachable state the keys of the expansion set (expandedFiles)
\* are exactly the keys of the selection set (selectedFiles).
C3_ExpandedKeysAreSelectedKeys == DOMAIN expandedFiles = DOMAIN selectedFiles

\* C3's case: a file is selected and the expansion toggle has expanded it.
C3_SelectedFileExpanded ==
    /\ DOMAIN selectedFiles # {}
    /\ \E path \in DOMAIN expandedFiles : expandedFiles[path]

\* C4: right after a step that changes the mode, in either direction, the
\* selection set, the expansion set and the diff cache are all empty.
C4_MapsEmptyAfterModeSwitch ==
    [][mode' # mode =>
          /\ selectedFiles' = EmptyMap
          /\ expandedFiles' = EmptyMap
          /\ fileDiffs' = EmptyMap]_vars

\* C5: a Tab key received while a modal is active leaves the mode and the
\* three per-file maps unchanged and starts no working-tree scan.
C5_TabIgnoredUnderModal ==
    [][(activeModal # ModalNone /\ modalKey'.key = "tab") =>
          /\ mode' = mode
          /\ UNCHANGED perFileMaps
          /\ Dispatched = {}]_vars

\* C6: a key received while a modal is active is never passed on to the list
\* and diff panel of either mode, the dismissing key included.
C6_ModalKeyNotForwarded == forwarded = "none"

\* C7: a quit key received while a modal is active only closes the modal and
\* never exits the process; received while no modal is active it exits.
C7_QuitKeyDismissesOrExits ==
    [][/\ (activeModal # ModalNone /\ modalKey'.key = "q") =>
             (activeModal' = ModalNone /\ exited' = Running)
       /\ (activeModal = ModalNone /\ Key("q", QuitKey("q"))) =>
             exited' = "quit"]_vars

\* The confirm modal that guards a destructive operation.
GateOf(op) ==
    CASE op = "dropStash" -> ModalDeleteConfirm
      [] op = "applyStash" -> ModalApplyConfirm
      [] op = "restoreWorkingDirectory" -> ModalRestoreConfirm

\* C8: a drop, an apply or a working-tree restore is started only by an
\* affirmative key received while its confirm modal is active, and a drop or
\* apply names the reference remembered when that modal was opened: the modal
\* opens only from no modal, remembering the selected stash, and the
\* remembered reference does not change while the modal stays open.
C8_ConfirmationGate ==
    [][/\ \A c \in Dispatched :
             c.op \in {"dropStash", "applyStash", "restoreWorkingDirectory"} =>
                /\ modalKey' = [modal |-> GateOf(c.op), key |-> "y"]
                /\ c.op # "restoreWorkingDirectory" => c.ref = selectedRef
       /\ (activeModal' \in {ModalDeleteConfirm, ModalApplyConfirm}
             /\ activeModal' # activeModal) =>
                /\ activeModal = ModalNone
                /\ HasSelectedItem(stashItems, stashIndex)
                /\ selectedRef' = SelectedItem(stashItems, stashIndex)
       /\ (activeModal \in {ModalDeleteConfirm, ModalApplyConfirm}
             /\ activeModal' = activeModal) =>
                selectedRef' = selectedRef]_vars

\* C8's case: the affirmative key in DeleteConfirm has just started the drop
\* of the remembered reference.
C8_DropConfirmed ==
    /\ modalKey = [modal |-> ModalDeleteConfirm, key |-> "y"]
    /\ dropStash(selectedRef) \in BagToSet(inflight)

\* C9: in a confirm modal a negative or cancel key closes the modal and has
\* no other effect: nothing is started, the process goes on, and mode,
\* loading, the stash list and the three per-file maps are unchanged.
C9_CancelOnlyClosesModal ==
    [][(modalKey'.modal \in ConfirmModals /\ modalKey'.key \in {"n", "esc"}) =>
          /\ activeModal' = ModalNone
          /\ Dispatched = {}
          /\ exited' = Running
          /\ UNCHANGED << mode, loading, stashItems, perFileMaps >>]_vars

\* C10: Enter in the StashMessage modal while the input is empty starts no
\* create and does not close the modal; loading, mode and the selection set
\* are unchanged.
C10_EmptyMessageNotConfirmed ==
    [][(modalKey'.modal = ModalStashMessage /\ modalKey'.key = "enter"
          /\ stashInput = 0) =>
          /\ activeModal' = ModalStashMessage
          /\ Dispatched = {}
          /\ UNCHANGED << loading, mode, selectedFiles >>]_vars

\* C10's case: Enter was pressed in the StashMessage modal with no text.
C10_EnterOnEmptyInput ==
    /\ modalKey = [modal |-> ModalStashMessage, key |-> "enter"]
    /\ stashInput = 0
    /\ activeModal = ModalStashMessage

\* C11: while a drop is in flight and its completion has not been handled
\* (the list has not been re-fetched), no stash diff fetch is started.
C11_NoDiffFetchBeforeRefresh ==
    [][((\E c \in BagToSet(inflight) : c.op = "dropStash")
          /\ ~(\E c \in Completed : c.op = "dropStash"))
         => (\A c \in Dispatched : c.op # "getStashDiff")]_vars

\* min(a, b)
Min(a, b) == IF a < b THEN a ELSE b

\* C12: the step that handles a successful drop whose re-fetched list is not
\* empty goes on running, leaves the highlighted index at the previous index
\* clamped to the new list, and starts the diff fetch of the entry there.
C12_IndexClampedAfterDrop ==
    [][\A c \in Completed :
          (c.op = "dropStash" /\ gitStashes' = gitStashes - 1
             /\ gitStashes' > 0 /\ faults' = faults) =>
             /\ exited' = Running
             /\ stashItems' = listStashes(gitStashes')
             /\ stashIndex' = Min(stashIndex, Len(stashItems') - 1)
             /\ getStashDiff(SelectedItem(stashItems', stashIndex'))
                   \in Dispatched]_vars

\* C13: the stored error (m.err) is set only by a failed initial load of the
\* stash list; no failed operation sets it.
C13_ErrorOnlyFromBootstrap == err \in {NoError, "listStashes"}

\* C14: if the initial load of the stash list fails (the one failure counted
\* in the initial state), the stored error is set from the initial state on
\* and never cleared, and View renders the error view in every state.
C14_BootstrapErrorPersists ==
    (faults > 0) => [](err # NoError /\ View = "error")

\* C14's case: after a failed initial load, keys and completions have been
\* handled (Build mode, files listed, a diff cached) and the error is there.
C14_ErrorAfterEvents ==
    /\ err = "listStashes"
    /\ mode = ModeBuild
    /\ fileItems # <<>>
    /\ DOMAIN fileDiffs # {}

\* C15: while the diff fetch started by the confirm-selection key (Enter in
\* Explore with no modal) has not completed, loading is true: no other
\* completion handled in between sets it to false.
C15_LoadingUntilOwnCompletion == viewing # NoCmd => loading

\* C16: in every reachable state where loading is true, a stash diff fetch,
\* an apply, a create or a restore is in flight.
C16_LoadingHasOperationInFlight ==
    loading =>
        \E c \in BagToSet(inflight) :
            c.op \in {"getStashDiff", "applyStash", "createStash",
                      "restoreWorkingDirectory"}

\* C16's case: an apply was confirmed, loading is true and the apply is in
\* flight.
C16_LoadingDuringApply ==
    /\ loading
    /\ \E c \in BagToSet(inflight) : c.op = "applyStash"

\* C17: the step that handles the completion of the diff fetch for a path
\* writes that path's entry of the diff cache, with that file's diff, and
\* leaves the entry of every other path as it was, whichever file is
\* highlighted.
C17_CompletionWritesOwnEntry ==
    [][\A c \in Completed :
          c.op = "getFileDiff" =>
             /\ c.file.Path \in DOMAIN fileDiffs'
             /\ fileDiffs'[c.file.Path] \in {FileDiffText(c.file), ErrorLoadingDiff}
             /\ \A path \in (DOMAIN fileDiffs \cup DOMAIN fileDiffs') \ {c.file.Path} :
                   /\ path \in DOMAIN fileDiffs
                   /\ path \in DOMAIN fileDiffs'
                   /\ fileDiffs'[path] = fileDiffs[path]]_vars

\* C17's case: two files are selected, the fetch for b.go has completed and
\* is cached under b.go while a.go is highlighted and its fetch is in flight.
C17_OtherFileHighlighted ==
    /\ DOMAIN selectedFiles = {"a.go", "b.go"}
    /\ DOMAIN fileDiffs = {"b.go"}
    /\ fileDiffs["b.go"] = FileDiffText(selectedFiles["b.go"])
    /\ HasSelectedItem(fileItems, fileIndex)
    /\ SelectedItem(fileItems, fileIndex).Path = "a.go"
    /\ getFileDiff(selectedFiles["a.go"]) \in BagToSet(inflight)

\* The file highlighted in the file list.
Highlighted == SelectedItem(fileItems, fileIndex)

\* The step handles key, received in Build mode with no modal active.
BuildKeyStep(key) ==
    /\ mode = ModeBuild
    /\ modalKey' = [modal |-> ModalNone, key |-> key]

\* C18: in Build mode with no modal, on a highlighted file that is selected,
\* Enter removes its path from the selection set, the expansion set and the
\* diff cache; Space only flips its expansion value and leaves the selection
\* set and the diff cache unchanged; neither starts an operation.
C18_EnterDeselectsSpaceToggles ==
    [][(HasSelectedItem(fileItems, fileIndex)
          /\ Highlighted.Path \in DOMAIN selectedFiles) =>
          /\ BuildKeyStep("enter") =>
                /\ selectedFiles' = MapDelete(selectedFiles, Highlighted.Path)
                /\ expandedFiles' = MapDelete(expandedFiles, Highlighted.Path)
                /\ fileDiffs' = MapDelete(fileDiffs, Highlighted.Path)
                /\ Dispatched = {}
          /\ BuildKeyStep(" ") =>
                /\ DOMAIN expandedFiles' = DOMAIN expandedFiles
                /\ \A path \in DOMAIN expandedFiles :
                      expandedFiles'[path] =
                         IF path = Highlighted.Path THEN ~expandedFiles[path]
                                                    ELSE expandedFiles[path]
                /\ UNCHANGED << selectedFiles, fileDiffs >>
                /\ Dispatched = {}]_vars

\* C18's case: Enter was just handled in Build mode and the highlighted file
\* is not selected (Enter on an unselected file selects it), its diff being
\* gone from the cache with nothing in flight.
C18_JustDeselected ==
    /\ mode = ModeBuild
    /\ modalKey = [modal |-> ModalNone, key |-> "enter"]
    /\ HasSelectedItem(fileItems, fileIndex)
    /\ Highlighted.Path \notin DOMAIN selectedFiles
    /\ inflight = EmptyBag

\* C19: in Build mode with no modal, Enter or Space on a highlighted file
\* that is not selected inserts its path into the selection set, inserts
\* false for it into the expansion set and starts exactly one diff fetch, for
\* that file; the diff cache has no entry for the path while that fetch has
\* not completed.
C19_SelectStartsOneFetch ==
    [][(HasSelectedItem(fileItems, fileIndex)
          /\ Highlighted.Path \notin DOMAIN selectedFiles
          /\ (BuildKeyStep("enter") \/ BuildKeyStep(" "))) =>
          /\ selectedFiles' = MapPut(selectedFiles, Highlighted.Path, Highlighted)
          /\ expandedFiles' = MapPut(expandedFiles, Highlighted.Path, FALSE)
          /\ Dispatched = {getFileDiff(Highlighted)}
          /\ BagCardinality(inflight') = BagCardinality(inflight) + 1
          /\ Highlighted.Path \notin DOMAIN fileDiffs']_vars

\* C20: in Build mode with no modal the save key opens the StashMessage modal
\* if and only if the selection set is not empty; with an empty selection
\* set the step changes nothing: no field of the model, nothing in flight,
\* and the highlighted file stays highlighted.
C20_SaveNeedsSelection ==
    [][BuildKeyStep("s") =>
          IF DOMAIN selectedFiles # {}
          THEN activeModal' = ModalStashMessage
          ELSE /\ activeModal' = ModalNone
               /\ UNCHANGED << modelVars, stashIndex, inflight, gitStashes,
                               exited >>
               /\ HasSelectedItem(fileItems, fileIndex) =>
                     fileIndex' = fileIndex]_vars

\* C20's case: the save key was just handled in Build mode with nothing
\* selected.
C20_SaveWithNothingSelected ==
    /\ mode = ModeBuild
    /\ modalKey = [modal |-> ModalNone, key |-> "s"]
    /\ DOMAIN selectedFiles = {}
    /\ fileItems # <<>>

\* The stash creations in flight.
CreatesInFlight(bag) == { c \in BagToSet(bag) : c.op = "createStash" }

\* C21: Enter in the StashMessage modal with a non-empty text starts exactly
\* one stash creation, whose paths are the keys of the selection set at that
\* moment and whose message is the text entered; the step clears the input,
\* closes the modal and sets loading.  No other step puts a stash creation
\* in flight, and none puts one in the place of another: a creation in
\* flight keeps the paths it was started with, whatever becomes of the
\* selection set.
C21_ConfirmStartsOneCreate ==
    [][/\ (modalKey' = [modal |-> ModalStashMessage, key |-> "enter"]
             /\ stashInput # 0)
          => /\ \E c \in Dispatched :
                  /\ Dispatched = {c}
                  /\ CopiesIn(c, inflight') = CopiesIn(c, inflight) + 1
                  /\ c.op = "createStash"
                  /\ { f.Path : f \in c.files } = DOMAIN selectedFiles
                  /\ c.message = stashInput
             /\ BagCardinality(inflight') = BagCardinality(inflight) + 1
             /\ stashInput' = 0
             /\ activeModal' = ModalNone
             /\ loading' = TRUE
       /\ (Dispatched \cap CreatesInFlight(inflight') # {})
          => /\ modalKey' = [modal |-> ModalStashMessage, key |-> "enter"]
             /\ Completed \cap CreatesInFlight(inflight) = {}
      ]_vars

\* C21's case: a stash creation is in flight and the selection set is no
\* longer the set of its paths.
C21_SelectionChangedAfterConfirm ==
    \E c \in CreatesInFlight(inflight) :
        /\ c.files # {}
        /\ c.message # 0
        /\ { f.Path : f \in c.files } # DOMAIN selectedFiles

C23_RestoreCompletion ==
    [][handled'.op = "restoreWorkingDirectory" =>
          /\ loading' = FALSE
          /\ IF handled'.result.ok
             THEN /\ selectedFiles' = EmptyMap
                  /\ expandedFiles' = EmptyMap
                  /\ fileDiffs' = EmptyMap
                  /\ Dispatched = { getChangedFiles }
                  /\ BagCardinality(inflight') = BagCardinality(inflight)
             ELSE /\ UNCHANGED << selectedFiles, expandedFiles, fileDiffs >>
                  /\ Dispatched = {}]_vars

\* C23's case: a restore has just failed while a file was selected.
C23_RestoreFailedWithSelection ==
    /\ handled.op = "restoreWorkingDirectory"
    /\ ~handled.result.ok
    /\ DOMAIN selectedFiles # {}

\* C24: a restore runs git restore and then git clean.  If git restore fails,
\* git clean is not run and the message carries the error and the output of
\* git restore alone; if git restore succeeds, git clean is run and the
\* message carries what git clean returned, error or none.
C24_RestoreTwoPhases ==
    handled.op = "restoreWorkingDirectory" =>
        LET o == handled.result
        IN  IF o.restoreErr # NoError
            THEN /\ o.msg.invoked = << "git restore ." >>
                 /\ o.msg.err = o.restoreErr
                 /\ o.msg.output = << "restoreOut" >>
            ELSE /\ o.msg.invoked = << "git restore .", "git clean -f -d" >>
                 /\ o.msg.err = o.cleanErr
                 /\ o.msg.output = << "restoreOut", "cleanOut" >>

\* C24's case: a restore has just completed in which git restore failed and
\* git clean would have failed as well.
C24_DiscardFailed ==
    /\ handled.op = "restoreWorkingDirectory"
    /\ handled.result.restoreErr # NoError
    /\ handled.result.cleanErr # NoError

\* The output of git status in a run whose working tree gives one output.
ScannedOutput == CHOOSE out \in trees : TRUE

\* The records the scan is to make of lines: none of a line of fewer than
\* four characters; of any other line a staged record unless its first
\* column is one of notStaged, then an unstaged record unless its second
\* column is blank, both with the path of the line.
RECURSIVE ScanRecords(_, _)
ScanRecords(lines, notStaged) ==
    IF lines = <<>> THEN <<>>
    ELSE LET line == Head(lines)
             path == Join(TrimSpace(SubSeq(line, 4, Len(line))))
         IN  (IF LineLen(line) >= 4 /\ line[1] \notin notStaged
              THEN << [Path |-> path, Status |-> line[1], IsStaged |-> TRUE] >>
              ELSE <<>>)
             \o (IF LineLen(line) >= 4 /\ line[2] # " "
                 THEN << [Path |-> path, Status |-> line[2], IsStaged |-> FALSE] >>
                 ELSE <<>>)
             \o ScanRecords(Tail(lines), notStaged)

\* C25, as stated: the scan makes of each status line of four characters or
\* more one staged record when its first column is not blank and one
\* unstaged record when its second column is not blank, both with the same
\* path, and no record of a shorter line.
C25_StagedWhenFirstColumnNotBlank ==
    (handled.op = "getChangedFiles" /\ handled.result.ok)
        => fileItems = ScanRecords(ScannedOutput, {" "})

\* C25, amended: the scan makes of each status line of four characters or
\* more one staged record when its first column is neither blank nor "?" and
\* one unstaged record when its second column is not blank, both with the
\* same path, and no record of a shorter line.
C25_StagedWhenFirstColumnTracked ==
    (handled.op = "getChangedFiles" /\ handled.result.ok)
        => fileItems = ScanRecords(ScannedOutput, {" ", "?"})

\* C25's case: the scan has just made two records of one line, the staged
\* one first, with one path.
C25_TwoRecordsOfOneLine ==
    /\ handled.op = "getChangedFiles"
    /\ Len(ScannedOutput) = 1
    /\ Len(fileItems) = 2
    /\ fileItems[1].IsStaged /\ ~fileItems[2].IsStaged
    /\ fileItems[1].Path = fileItems[2].Path

\* C26: in every reachable state in which the StashMessage modal is active
\* the selection set is not empty, and every stash creation in flight
\* carries at least one path.
C26_CreateCarriesAPath ==
    /\ activeModal = ModalStashMessage => DOMAIN selectedFiles # {}
    /\ \A c \in CreatesInFlight(inflight) : c.files # {}

\* C27: at most one drop is in flight for a stash reference: no drop of a
\* reference is started while a drop of the same reference has not completed.
C27_OneDropPerReference ==
    \A c \in BagToSet(inflight) : c.op = "dropStash" => CopiesIn(c, inflight) <= 1

\* C28: when no stash diff fetch is in flight, the diff text of the Explore
\* panel is the result of the stash diff fetch that was started last.
C28_DiffIsOfLastFetch ==
    (/\ lastFetch # NoCmd
     /\ \A c \in BagToSet(inflight) : c.op # "getStashDiff")
        => diff \in { StashDiffText(lastFetch.ref), ErrorLoadingDiff }

\* C29: when no file diff fetch is in flight, the diff cache entry of every
\* selected path is the diff of the file change, staged or unstaged, that
\* the selection set holds for the path.
C29_CachedDiffIsOfSelectedVariant ==
    (\A c \in BagToSet(inflight) : c.op # "getFileDiff")
        => \A path \in DOMAIN selectedFiles \cap DOMAIN fileDiffs :
              fileDiffs[path] \in { FileDiffText(selectedFiles[path]),
                                    ErrorLoadingDiff }

\* C30: once the error is set, no call of Update with a key starts a git
\* command or opens a modal.  (A step that handles no completion and starts
\* a command or changes the modal is a call with a key.)
C30_NoKeyActsAfterError ==
    [][(err # NoError /\ Completed = {})
          => /\ Dispatched = {}
             /\ activeModal' \in {activeModal, ModalNone}]_vars

\* C31: in every reachable state in which the StashMessage modal is not
\* active the text of the stash-message input is empty.
C31_InputEmptyOutsideModal ==
    activeModal # ModalStashMessage => stashInput = 0

\* C32: in a run in which every command in flight has its completion
\* delivered, if from some point on no key is handled (every step is the
\* handling of a completion), then from some point on loading is false for
\* as long as the program runs.
C32_LoadingSettles ==
    <>[][Completed # {}]_vars => <>[](exited = Running => loading = FALSE)

\* C32's case: the completion of an apply, which had set loading, has just
\* been handled with a fetch still in flight, and loading is false.
C32_AppliedAndNotLoading ==
    /\ handled.op = "applyStash"
    /\ inflight # EmptyBag
    /\ exited = Running
    /\ loading = FALSE

====
